---- MODULE Spec2Model ----
(***************************************************************************)
(* Model of etk-asm/src/parse/mod.rs: parse_asm walks the top-level pairs  *)
(* of the parse tree and builds the node sequence, parse_push normalises   *)
(* the operand of a push, radix_str_to_vec converts a numeric literal.     *)
(*                                                                         *)
(* Text is a sequence of one-character strings.  A u128 is a sequence of   *)
(* 16 bytes, most significant first, because the values exceed the range   *)
(* of the model checker's integers.                                        *)
(***************************************************************************)
EXTENDS Integers, Sequences, FiniteSets, TLC

VARIABLES asm, pc, idx, program, result

vars == <<asm, pc, idx, program, result>>

\* ------------------------------------------------------------------------
\* Bounds of the model
\* ------------------------------------------------------------------------

\* longest program (in top-level pairs) built from the small statement set
MaxLen == 3

\* numeric literals of up to this many digits are enumerated exhaustively
MaxDigits == 2

\* ------------------------------------------------------------------------
\* Program constants
\* ------------------------------------------------------------------------

\* bytes of a u128
U128Bytes == 16

\* widest push
MaxPush == 32

\* bytes of a Keccak-256 digest
HashLen == 32

\* ------------------------------------------------------------------------
\* Text and byte helpers
\* ------------------------------------------------------------------------

Max(a, b) == IF a >= b THEN a ELSE b

Min(a, b) == IF a <= b THEN a ELSE b

Zeros(n) == [k \in 1..n |-> 0]

\* &s[n..] of a string
Tail2(s, n) == SubSeq(s, n + 1, Len(s))

\* char::to_digit for radix <= 16; -1 stands for None
CharVal(c) ==
    CASE c = "0" -> 0 [] c = "1" -> 1 [] c = "2" -> 2 [] c = "3" -> 3
      [] c = "4" -> 4 [] c = "5" -> 5 [] c = "6" -> 6 [] c = "7" -> 7
      [] c = "8" -> 8 [] c = "9" -> 9
      [] c = "a" -> 10 [] c = "b" -> 11 [] c = "c" -> 12
      [] c = "d" -> 13 [] c = "e" -> 14 [] c = "f" -> 15
      [] c = "A" -> 10 [] c = "B" -> 11 [] c = "C" -> 12
      [] c = "D" -> 13 [] c = "E" -> 14 [] c = "F" -> 15
      [] OTHER -> -1

to_digit(c, radix) ==
    IF CharVal(c) >= 0 /\ CharVal(c) < radix THEN CharVal(c) ELSE -1

\* ------------------------------------------------------------------------
\* u128::from_str_radix
\* ------------------------------------------------------------------------

\* n * radix + d on a 16-byte big-endian number, from the least significant
\* byte up; carry is what is left above byte k.  Result: the bytes and the
\* carry out of the most significant byte.
RECURSIVE MulAddFrom(_, _, _, _)
MulAddFrom(n, radix, carry, k) ==
    IF k = 0 THEN [bytes |-> n, carry |-> carry]
    ELSE LET t == n[k] * radix + carry
         IN  MulAddFrom([n EXCEPT ![k] = t % 256], radix, t \div 256, k - 1)

\* checked_mul(radix) then checked_add(d): None when the result needs more
\* than 128 bits
checked_mul_add(n, radix, d) == MulAddFrom(n, radix, d, U128Bytes)

\* the digit loop of from_str_radix; ok = FALSE is Err(ParseIntError)
RECURSIVE FromDigits(_, _, _, _)
FromDigits(s, radix, k, n) ==
    IF k > Len(s) THEN [ok |-> TRUE, n |-> n]
    ELSE IF to_digit(s[k], radix) < 0 THEN [ok |-> FALSE, n |-> n]
    ELSE LET r == checked_mul_add(n, radix, to_digit(s[k], radix))
         IN  IF r.carry # 0 THEN [ok |-> FALSE, n |-> n]
             ELSE FromDigits(s, radix, k + 1, r.bytes)

from_str_radix(s, radix) ==
    LET digits == IF Len(s) > 0 /\ s[1] = "+" THEN Tail(s) ELSE s
    IN  IF Len(digits) = 0 THEN [ok |-> FALSE, n |-> Zeros(U128Bytes)]
        ELSE FromDigits(digits, radix, 1, Zeros(U128Bytes))

\* ------------------------------------------------------------------------
\* radix_str_to_vec
\* ------------------------------------------------------------------------

\* number of significant bits of one byte
BitLen8(b) ==
    IF b >= 128 THEN 8 ELSE IF b >= 64 THEN 7 ELSE IF b >= 32 THEN 6
    ELSE IF b >= 16 THEN 5 ELSE IF b >= 8 THEN 4 ELSE IF b >= 4 THEN 3
    ELSE IF b >= 2 THEN 2 ELSE IF b >= 1 THEN 1 ELSE 0

\* u128::leading_zeros
RECURSIVE LeadingZerosFrom(_, _)
LeadingZerosFrom(n, k) ==
    IF k > Len(n) THEN 0
    ELSE IF n[k] = 0 THEN 8 + LeadingZerosFrom(n, k + 1)
    ELSE 8 - BitLen8(n[k])

leading_zeros(n) == LeadingZerosFrom(n, 1)

\* the byte count radix_str_to_vec slices off the 16 bytes of n
RadixLen(n, min) ==
    LET msb  == 128 - leading_zeros(n)
        len0 == msb \div 8
        len1 == IF msb % 8 # 0 THEN len0 + 1 ELSE len0
    IN  Max(len1, min)

\* radix_str_to_vec with the slice taken at the declared width, so that a
\* longer value loses its high bytes
radix_str_to_vec_truncating(s, radix, min) ==
    LET p == from_str_radix(s, radix)
    IN  IF ~p.ok THEN [tag |-> "Err", kind |-> "ImmediateTooLarge"]
        ELSE IF U128Bytes - min < 0 THEN [tag |-> "Panic"]
        ELSE [tag |-> "Ok", bytes |-> SubSeq(p.n, U128Bytes - min + 1, U128Bytes)]

\* Outcomes: Err(ImmediateTooLarge) when the literal does not parse as a
\* u128; an abort when 16 - len is negative (subtraction overflow in a
\* checked build, slice start out of range in an unchecked one); else the
\* last len bytes of n.
radix_str_to_vec(s, radix, min) ==
    LET p == from_str_radix(s, radix)
    IN  IF ~p.ok THEN [tag |-> "Err", kind |-> "ImmediateTooLarge"]
        ELSE IF U128Bytes - RadixLen(p.n, min) < 0 THEN [tag |-> "Panic"]
        ELSE [tag |-> "Ok",
              bytes |-> SubSeq(p.n, U128Bytes - RadixLen(p.n, min) + 1, U128Bytes)]

\* ------------------------------------------------------------------------
\* crate::ops (Specifier, Imm, Op, AbstractOp) and crate::ast::Node
\* ------------------------------------------------------------------------

\* Specifier::push(n): the specifier of pushN, None outside 1..=32.  size is
\* the total encoded size, the opcode byte and n immediate bytes.
SpecifierPush(n) ==
    IF n >= 1 /\ n <= MaxPush
    THEN [some |-> TRUE, mnemonic |-> "push", size |-> n + 1]
    ELSE [some |-> FALSE, mnemonic |-> "push", size |-> 0]

\* Specifier::size()
SpecSize(spec) == spec.size

\* the specifier of an instruction without immediate
SpecifierOp(txt) == [some |-> TRUE, mnemonic |-> txt, size |-> 1]

PadLeft(bytes, n) == Zeros(n - Len(bytes)) \o bytes

ImmConstant(bytes) == [tag |-> "Constant", bytes |-> bytes]

ImmLabel(name) == [tag |-> "Label", name |-> name]

\* AbstractOp::with_immediate: too many bytes for the specifier is an error,
\* fewer are left-padded with zero bytes to the width
with_immediate(spec, imm) ==
    IF Len(imm) > SpecSize(spec) - 1 THEN [tag |-> "Err"]
    ELSE [tag |-> "Ok",
          op  |-> [kind |-> "Op", spec |-> spec,
                   imm |-> ImmConstant(PadLeft(imm, SpecSize(spec) - 1))]]

\* AbstractOp::with_label
with_label(spec, label) ==
    [kind |-> "Op", spec |-> spec, imm |-> ImmLabel(label)]

\* AbstractOp::Label
AbstractLabel(txt) == [kind |-> "Label", txt |-> txt]

\* AbstractOp::Push, the push of unspecified width of the %push macro
AbstractPush(imm) == [kind |-> "Push", imm |-> imm]

\* AbstractOp::Op(Op::new(spec)) for an instruction without immediate
AbstractBare(spec) == [kind |-> "Op", spec |-> spec, imm |-> [tag |-> "None"]]

NodeOp(aop) == [node |-> "Op", op |-> aop]

NodePath(variant, path) == [node |-> variant, path |-> path]

\* ------------------------------------------------------------------------
\* Keccak-256 of the signatures the model uses
\* ------------------------------------------------------------------------

Keccak256(sig) ==
    CASE sig = "name()" ->
           <<6, 253, 222, 3, 131, 241, 93, 88, 45, 26, 116, 81, 20, 134, 201, 221,
             248, 98, 168, 130, 251, 121, 4, 179, 217, 254, 155, 139, 142, 88, 167, 150>>
      [] sig = "balanceOf(address)" ->
           <<112, 160, 130, 49, 185, 142, 244, 202, 38, 140, 156, 195, 246, 180, 89, 14,
             75, 254, 194, 130, 128, 219, 6, 187, 93, 69, 230, 137, 242, 163, 96, 190>>
      [] sig = "transfer(address,uint256)" ->
           <<169, 5, 156, 187, 42, 176, 158, 178, 25, 88, 63, 74, 89, 165, 208, 98,
             58, 222, 52, 109, 150, 43, 205, 78, 70, 177, 29, 160, 71, 201, 4, 155>>
      [] sig = "approve(address,uint256)" ->
           <<9, 94, 167, 179, 52, 174, 68, 0, 154, 168, 103, 191, 179, 134, 245, 195,
             180, 180, 67, 172, 111, 14, 229, 115, 250, 145, 196, 96, 143, 186, 223, 186>>

\* ------------------------------------------------------------------------
\* parse_push
\* ------------------------------------------------------------------------

\* str::parse::<usize> of the width digits of the mnemonic
RECURSIVE ParseUsizeFrom(_, _, _)
ParseUsizeFrom(s, k, acc) ==
    IF k > Len(s) THEN acc
    ELSE ParseUsizeFrom(s, k + 1, acc * 10 + to_digit(s[k], 10))

ParseUsize(s) == ParseUsizeFrom(s, 1, 0)

\* hex::decode of an even number of hex digits
HexDecode(s) ==
    [k \in 1..(Len(s) \div 2) |->
        16 * to_digit(s[2 * k - 1], 16) + to_digit(s[2 * k], 16)]

\* .ok().context(error::ImmediateTooLarge)?
ImmediateOrTooLarge(r) ==
    IF r.tag = "Ok" THEN r ELSE [tag |-> "Err", kind |-> "ImmediateTooLarge"]

\* the three arms binary, octal, decimal: radix_str_to_vec, then
\* with_immediate on what it returned
PushRadix(spec, s, radix, size) ==
    LET imm == radix_str_to_vec(s, radix, size)
    IN  IF imm.tag # "Ok" THEN imm
        ELSE ImmediateOrTooLarge(with_immediate(spec, imm.bytes))

\* the arm hex keeping the last bytes of a literal that is too long
PushHexTruncating(spec, raw) ==
    LET bytes == HexDecode(Tail2(raw, 2))
        n     == SpecSize(spec) - 1
    IN  ImmediateOrTooLarge(
            with_immediate(spec, SubSeq(bytes, Max(1, Len(bytes) - n + 1), Len(bytes))))

\* the arm hex: hex::decode of the text after "0x"
PushHex(spec, raw) ==
    ImmediateOrTooLarge(with_immediate(spec, HexDecode(Tail2(raw, 2))))

\* the arm selector taking spec.size() bytes of the digest, the opcode byte
\* counted as an immediate byte
PushSelectorWholeSize(spec, sig) ==
    IF SpecSize(spec) > HashLen THEN [tag |-> "Panic"]
    ELSE ImmediateOrTooLarge(
             with_immediate(spec, SubSeq(Keccak256(sig), 1, SpecSize(spec))))

\* the arm selector: the first spec.size() - 1 bytes of the digest; a range
\* past the end of the digest aborts
PushSelector(spec, sig) ==
    IF SpecSize(spec) - 1 > HashLen THEN [tag |-> "Panic"]
    ELSE ImmediateOrTooLarge(
             with_immediate(spec, SubSeq(Keccak256(sig), 1, SpecSize(spec) - 1)))

\* the arm label building the push of unspecified width of the %push macro
PushLabelUnsized(spec, txt) == [tag |-> "Ok", op |-> AbstractPush(ImmLabel(txt))]

\* the arm label
PushLabel(spec, txt) == [tag |-> "Ok", op |-> with_label(spec, txt)]

\* the specifier taken for the total size instead of the immediate width
PushSpecOffByOne(size) == SpecifierPush(size + 1)

\* Specifier::push(size as u32), before the unwrap
PushSpec(size) == SpecifierPush(size)

parse_push(pair) ==
    LET size    == ParseUsize(pair.size)
        operand == pair.operand
        spec    == PushSpec(size)
    IN  IF ~spec.some THEN [tag |-> "Panic"]
        ELSE CASE operand.rule = "binary" ->
                    PushRadix(spec, Tail2(operand.raw, 2), 2, size)
               [] operand.rule = "octal" ->
                    PushRadix(spec, Tail2(operand.raw, 2), 8, size)
               [] operand.rule = "decimal" ->
                    PushRadix(spec, operand.raw, 10, size)
               [] operand.rule = "hex" -> PushHex(spec, operand.raw)
               [] operand.rule = "selector" -> PushSelector(spec, operand.inner)
               [] operand.rule = "label" -> PushLabel(spec, operand.txt)
               [] OTHER -> [tag |-> "Panic"]

\* ------------------------------------------------------------------------
\* parse_inst_macro and the argument typing it calls
\* ------------------------------------------------------------------------

\* <(T,)>::parse_arguments: arity first, then the type of the one argument;
\* want is the lexical rule the target type accepts
parse_arguments(args, want) ==
    IF Len(args) < 1
    THEN [tag |-> "Err", kind |-> "MissingArgument", got |-> Len(args), expected |-> 1]
    ELSE IF Len(args) > 1
    THEN [tag |-> "Err", kind |-> "ExtraArgument", expected |-> 1]
    ELSE IF args[1].rule # want
    THEN [tag |-> "Err", kind |-> "ArgumentType"]
    ELSE [tag |-> "Ok", arg |-> args[1].txt]

\* parse_inst_macro with the node of %include built for %import too
parse_inst_macro_swapped(pair) ==
    CASE pair.rule \in {"import", "include"} ->
           LET a == parse_arguments(pair.args, "string")
           IN  IF a.tag = "Err" THEN a
               ELSE [tag |-> "Ok", node |-> NodePath("Include", a.arg)]
      [] pair.rule = "include_hex" ->
           LET a == parse_arguments(pair.args, "string")
           IN  IF a.tag = "Err" THEN a
               ELSE [tag |-> "Ok", node |-> NodePath("IncludeHex", a.arg)]
      [] pair.rule = "push_macro" ->
           LET a == parse_arguments(pair.args, "label")
           IN  IF a.tag = "Err" THEN a
               ELSE [tag |-> "Ok", node |-> NodeOp(AbstractPush(ImmLabel(a.arg)))]
      [] OTHER -> [tag |-> "Panic"]

parse_inst_macro(pair) ==
    CASE pair.rule = "import" ->
           LET a == parse_arguments(pair.args, "string")
           IN  IF a.tag = "Err" THEN a
               ELSE [tag |-> "Ok", node |-> NodePath("Import", a.arg)]
      [] pair.rule = "include" ->
           LET a == parse_arguments(pair.args, "string")
           IN  IF a.tag = "Err" THEN a
               ELSE [tag |-> "Ok", node |-> NodePath("Include", a.arg)]
      [] pair.rule = "include_hex" ->
           LET a == parse_arguments(pair.args, "string")
           IN  IF a.tag = "Err" THEN a
               ELSE [tag |-> "Ok", node |-> NodePath("IncludeHex", a.arg)]
      [] pair.rule = "push_macro" ->
           LET a == parse_arguments(pair.args, "label")
           IN  IF a.tag = "Err" THEN a
               ELSE [tag |-> "Ok", node |-> NodeOp(AbstractPush(ImmLabel(a.arg)))]
      [] OTHER -> [tag |-> "Panic"]

\* ------------------------------------------------------------------------
\* Source texts, as the top-level pairs the grammar produces for them
\* ------------------------------------------------------------------------

DigitChars == <<"0", "1", "2", "3", "4", "5", "6", "7", "8", "9",
                "a", "b", "c", "d", "e", "f">>

\* the text of a sequence of digit values
Text(ds) == [k \in 1..Len(ds) |-> DigitChars[ds[k] + 1]]

\* the decimal text of a small number, as in the N of pushN
SizeText(n) == IF n < 10 THEN Text(<<n>>) ELSE Text(<<n \div 10, n % 10>>)

Rep(d, n) == [k \in 1..n |-> d]

\* every digit string of 1..MaxDigits digits of the radix
ShortDigits(radix) ==
    UNION {[1..k -> 0..(radix - 1)] : k \in 1..MaxDigits}

\* literals at the byte-count boundaries, as digit values
BoundaryDecimal ==
    { <<2, 5, 5>>, <<2, 5, 6>>, <<0, 0, 4, 2>>, <<6, 5, 5, 3, 5>>, <<6, 5, 5, 3, 6>>,
      <<4, 2, 9, 4, 9, 6, 7, 2, 9, 5>>,
      <<1, 8, 4, 4, 6, 7, 4, 4, 0, 7, 3, 7, 0, 9, 5, 5, 1, 6, 1, 5>>,
      <<1, 8, 4, 4, 6, 7, 4, 4, 0, 7, 3, 7, 0, 9, 5, 5, 1, 6, 1, 6>>,
      <<1, 3, 2, 9, 2, 2, 7, 9, 9, 5, 7, 8, 4, 9, 1, 5, 8, 7, 2, 9,
        0, 3, 8, 0, 7, 0, 6, 0, 2, 8, 0, 3, 4, 4, 5, 7, 5>>,
      <<1, 3, 2, 9, 2, 2, 7, 9, 9, 5, 7, 8, 4, 9, 1, 5, 8, 7, 2, 9,
        0, 3, 8, 0, 7, 0, 6, 0, 2, 8, 0, 3, 4, 4, 5, 7, 6>>,
      <<3, 4, 0, 2, 8, 2, 3, 6, 6, 9, 2, 0, 9, 3, 8, 4, 6, 3, 4, 6,
        3, 3, 7, 4, 6, 0, 7, 4, 3, 1, 7, 6, 8, 2, 1, 1, 4, 5, 5>>,
      <<3, 4, 0, 2, 8, 2, 3, 6, 6, 9, 2, 0, 9, 3, 8, 4, 6, 3, 4, 6,
        3, 3, 7, 4, 6, 0, 7, 4, 3, 1, 7, 6, 8, 2, 1, 1, 4, 5, 6>>,
      <<1>> \o Rep(0, 40) }

BoundaryBinary ==
    { Rep(1, 8), <<1>> \o Rep(0, 8), Rep(1, 16), <<1>> \o Rep(0, 16),
      Rep(1, 32), <<1>> \o Rep(0, 32), Rep(0, 3) \o Rep(1, 32) }

BoundaryOctal ==
    { <<3, 7, 7>>, <<4, 0, 0>>, <<1, 7, 7, 7, 7, 7>>, <<2, 0, 0, 0, 0, 0>>,
      <<3>> \o Rep(7, 42), <<4>> \o Rep(0, 42) }

DigitsOf(radix) ==
    ShortDigits(radix) \cup
    (CASE radix = 2 -> BoundaryBinary
       [] radix = 8 -> BoundaryOctal
       [] radix = 10 -> BoundaryDecimal)

RadixRule(radix) ==
    CASE radix = 2 -> "binary" [] radix = 8 -> "octal" [] radix = 10 -> "decimal"

RadixPrefix(radix) ==
    CASE radix = 2 -> <<"0", "b">> [] radix = 8 -> <<"0", "o">> [] radix = 10 -> <<>>

RadixOperand(radix, ds) ==
    [rule |-> RadixRule(radix), raw |-> RadixPrefix(radix) \o Text(ds)]

\* hex literals of k raw bytes: 0x0102.., 0xffff.., 0x0000..01
HexBytes(k, style) ==
    CASE style = "count" -> [j \in 1..k |-> j]
      [] style = "ff"    -> Rep(255, k)
      [] style = "zero"  -> Rep(0, k - 1) \o <<1>>

HexText(bytes) ==
    [j \in 1..(2 * Len(bytes)) |->
        IF j % 2 = 1 THEN DigitChars[(bytes[(j + 1) \div 2] \div 16) + 1]
        ELSE DigitChars[(bytes[j \div 2] % 16) + 1]]

HexOperand(bytes) == [rule |-> "hex", raw |-> <<"0", "x">> \o HexText(bytes)]

HexLiterals ==
    {HexBytes(k, style) : k \in 1..(MaxPush + 1), style \in {"count", "ff", "zero"}}

Signatures ==
    {"name()", "balanceOf(address)", "transfer(address,uint256)",
     "approve(address,uint256)"}

LabelNames == {"snake_case", "start", "push1"}

SelectorOperand(sig) == [rule |-> "selector", inner |-> sig]

LabelOperand(name) == [rule |-> "label", txt |-> name]

Operands ==
    {RadixOperand(r, ds) : r \in {2}, ds \in DigitsOf(2)}
    \cup {RadixOperand(r, ds) : r \in {8}, ds \in DigitsOf(8)}
    \cup {RadixOperand(r, ds) : r \in {10}, ds \in DigitsOf(10)}
    \cup {HexOperand(b) : b \in HexLiterals}
    \cup {SelectorOperand(sig) : sig \in Signatures}
    \cup {LabelOperand(name) : name \in LabelNames}

PushPair(n, operand) == [rule |-> "push", size |-> SizeText(n), operand |-> operand]

MacroPair(name, args) ==
    [rule |-> "inst_macro", inner |-> <<[rule |-> name, args |-> args]>>]

StringArg(txt) == [rule |-> "string", txt |-> txt]

LabelArg(txt) == [rule |-> "label", txt |-> txt]

HexArg(txt) == [rule |-> "hex", txt |-> txt]

LabelDefnPair(name) == [rule |-> "label_defn", inner |-> <<[rule |-> "label", txt |-> name]>>]

OpPair(txt) == [rule |-> "op", txt |-> txt]

EOIPair == [rule |-> "EOI"]

AllPushes == {PushPair(n, o) : n \in 1..MaxPush, o \in Operands}

\* the statements the longer programs are built from
Statements ==
    { MacroPair("import", <<StringArg("foo.asm")>>),
      MacroPair("import", <<>>),
      MacroPair("import", <<StringArg("foo.asm"), StringArg("bar.asm")>>),
      MacroPair("import", <<HexArg("0x44")>>),
      MacroPair("include", <<StringArg("foo.asm")>>),
      MacroPair("include_hex", <<StringArg("foo.hex")>>),
      MacroPair("include_hex",
                <<StringArg("a.hex"), StringArg("b.hex"), StringArg("c.hex")>>),
      MacroPair("push_macro", <<LabelArg("hello")>>),
      MacroPair("push_macro", <<StringArg("hello")>>),
      LabelDefnPair("push1"),
      OpPair("jumpi"),
      PushPair(1, LabelOperand("push1")),
      PushPair(1, RadixOperand(10, <<1>>)),
      PushPair(1, RadixOperand(10, <<2, 5, 6>>)),
      PushPair(17, RadixOperand(10, <<0>>)),
      PushPair(4, SelectorOperand("name()")) }

Programs ==
    UNION {[1..k -> Statements] : k \in 0..MaxLen}
    \cup {<<p>> : p \in AllPushes}

\* A source text is either rejected by the grammar or parsed into its pairs,
\* the last of which is the end-of-input pair.
Inputs ==
    {[lexes |-> FALSE, pairs |-> <<>>]}
    \cup {[lexes |-> TRUE, pairs |-> p \o <<EOIPair>>] : p \in Programs}

\* ------------------------------------------------------------------------
\* parse_asm
\* ------------------------------------------------------------------------

NoResult == [tag |-> "None"]

Init ==
    /\ asm \in Inputs
    /\ pc = "parse"
    /\ idx = 1
    /\ program = <<>>
    /\ result = NoResult

\* AsmParser::parse(Rule::program, asm)? on a text the grammar rejects
ParseLexerError ==
    /\ pc = "parse"
    /\ ~asm.lexes
    /\ pc' = "done"
    /\ result' = [tag |-> "Err", kind |-> "Lexer"]
    /\ UNCHANGED <<asm, idx, program>>

\* AsmParser::parse(Rule::program, asm)? on a text the grammar accepts
ParsePairs ==
    /\ pc = "parse"
    /\ asm.lexes
    /\ pc' = "loop"
    /\ UNCHANGED <<asm, idx, program, result>>

AtPair(rules) ==
    /\ pc = "loop"
    /\ idx <= Len(asm.pairs)
    /\ asm.pairs[idx].rule \in rules

\* one pass of the loop that ends in program.push(node)
Pushed(node) ==
    /\ program' = Append(program, node)
    /\ idx' = idx + 1
    /\ UNCHANGED <<asm, pc, result>>

\* the ? operator on an Err, or an abort
Returned(r) ==
    /\ pc' = "done"
    /\ result' = r
    /\ UNCHANGED <<asm, idx, program>>

\* Rule::inst_macro
StepInstMacro ==
    /\ AtPair({"inst_macro"})
    /\ LET inner == asm.pairs[idx].inner
           r     == IF Len(inner) # 1 THEN [tag |-> "Panic"]
                    ELSE parse_inst_macro(inner[1])
       IN  IF r.tag = "Ok" THEN Pushed(r.node) ELSE Returned(r)

\* Rule::label_defn
StepLabelDefn ==
    /\ AtPair({"label_defn"})
    /\ LET inner == asm.pairs[idx].inner
       IN  IF Len(inner) < 1 THEN Returned([tag |-> "Panic"])
           ELSE Pushed(NodeOp(AbstractLabel(inner[1].txt)))

\* Rule::push going on to the next pair when parse_push fails
StepPushSwallowsError ==
    /\ AtPair({"push"})
    /\ LET r == parse_push(asm.pairs[idx])
       IN  IF r.tag = "Ok" THEN Pushed(NodeOp(r.op))
           ELSE /\ idx' = idx + 1
                /\ UNCHANGED <<asm, pc, program, result>>

\* Rule::push
StepPush ==
    /\ AtPair({"push"})
    /\ LET r == parse_push(asm.pairs[idx])
       IN  IF r.tag = "Ok" THEN Pushed(NodeOp(r.op)) ELSE Returned(r)

\* Rule::op putting its node in front of the nodes built so far
StepOpPrepends ==
    /\ AtPair({"op"})
    /\ program' = <<NodeOp(AbstractBare(SpecifierOp(asm.pairs[idx].txt)))>> \o program
    /\ idx' = idx + 1
    /\ UNCHANGED <<asm, pc, result>>

\* Rule::op
StepOp ==
    /\ AtPair({"op"})
    /\ Pushed(NodeOp(AbstractBare(SpecifierOp(asm.pairs[idx].txt))))

\* _ => continue
StepSkip ==
    /\ pc = "loop"
    /\ idx <= Len(asm.pairs)
    /\ asm.pairs[idx].rule \notin {"inst_macro", "label_defn", "push", "op"}
    /\ idx' = idx + 1
    /\ UNCHANGED <<asm, pc, program, result>>

\* Ok(program)
ReturnOk ==
    /\ pc = "loop"
    /\ idx > Len(asm.pairs)
    /\ pc' = "done"
    /\ result' = [tag |-> "Ok", nodes |-> program]
    /\ UNCHANGED <<asm, idx, program>>

Next ==
    \/ ParseLexerError
    \/ ParsePairs
    \/ StepInstMacro
    \/ StepLabelDefn
    \/ StepPush
    \/ StepOp
    \/ StepSkip
    \/ ReturnOk

Spec == Init /\ [][Next]_vars

TypeOK ==
    /\ pc \in {"parse", "loop", "done"}
    /\ idx \in 1..(Len(asm.pairs) + 1)
    /\ result.tag \in {"None", "Ok", "Err", "Panic"}
    /\ (pc = "done") = (result.tag # "None")

\* ------------------------------------------------------------------------
\* Reference arithmetic for the properties: a natural number is its base-256
\* digits, least significant first, without high zero digits (zero is <<>>)
\* ------------------------------------------------------------------------

RECURSIVE NatMulAdd(_, _, _)
NatMulAdd(v, m, c) ==
    IF v = <<>>
    THEN IF c = 0 THEN <<>> ELSE <<c % 256>> \o NatMulAdd(<<>>, m, c \div 256)
    ELSE LET t == Head(v) * m + c
         IN  <<t % 256>> \o NatMulAdd(Tail(v), m, t \div 256)

\* the value of a digit string in the radix
RECURSIVE NatOfDigits(_, _, _, _)
NatOfDigits(ds, radix, k, v) ==
    IF k > Len(ds) THEN v
    ELSE NatOfDigits(ds, radix, k + 1, NatMulAdd(v, radix, ds[k]))

NatOf(ds, radix) == NatOfDigits(ds, radix, 1, <<>>)

Reverse(q) == [k \in 1..Len(q) |-> q[Len(q) + 1 - k]]

\* imm is raw left-padded with zero bytes to n bytes
IsPadded(imm, raw, n) ==
    /\ Len(imm) = n
    /\ Len(raw) <= n
    /\ \A k \in 1..n :
          imm[k] = IF k <= n - Len(raw) THEN 0 ELSE raw[k - (n - Len(raw))]

\* ------------------------------------------------------------------------
\* Reading the source text back from the state
\* ------------------------------------------------------------------------

IsPush(pair) == pair.rule = "push"

\* the N of the pushN of a push pair
WidthOf(pair) == CHOOSE n \in 1..MaxPush : SizeText(n) = pair.size

NumericRules == {"binary", "octal", "decimal"}

RadixOf(rule) ==
    CASE rule = "binary" -> 2 [] rule = "octal" -> 8 [] rule = "decimal" -> 10

DigitOfChar(c) == CHOOSE d \in 0..15 : DigitChars[d + 1] = c

\* the digit values of a numeric operand, without the 0b or 0o
LiteralDigits(operand) ==
    LET skip == IF operand.rule = "decimal" THEN 0 ELSE 2
    IN  [k \in 1..(Len(operand.raw) - skip) |-> DigitOfChar(operand.raw[k + skip])]

\* the value of a numeric operand
LiteralNat(operand) == NatOf(LiteralDigits(operand), RadixOf(operand.rule))

\* the raw bytes of a hex operand
HexRaw(operand) == CHOOSE b \in HexLiterals : HexOperand(b) = operand

\* the program is the one statement `pushN <operand>`
SolePush == asm.lexes /\ Len(asm.pairs) = 2 /\ IsPush(asm.pairs[1])

SoleN == WidthOf(asm.pairs[1])

SoleOperand == asm.pairs[1].operand

Done == pc = "done"

\* the node of a concrete pushN with these immediate bytes
ConcretePush(n, bytes) ==
    [node |-> "Op",
     op   |-> [kind |-> "Op",
               spec |-> [some |-> TRUE, mnemonic |-> "push", size |-> n + 1],
               imm  |-> [tag |-> "Constant", bytes |-> bytes]]]

\* the node of a pushN of a label still to be resolved
DeferredPush(n, name) ==
    [node |-> "Op",
     op   |-> [kind |-> "Op",
               spec |-> [some |-> TRUE, mnemonic |-> "push", size |-> n + 1],
               imm  |-> [tag |-> "Label", name |-> name]]]

TooLarge == [tag |-> "Err", kind |-> "ImmediateTooLarge"]

OkWith(nodes) == [tag |-> "Ok", nodes |-> nodes]

\* ------------------------------------------------------------------------
\* C1
\* ------------------------------------------------------------------------

\* C1: for every width N in 1..32 and every binary, octal or decimal literal
\* whose value fits in min(16, N) bytes, `pushN <v>` returns Ok with the one
\* concrete pushN whose immediate is the big-endian bytes of v left-padded
\* with zero bytes to N bytes, widths 17 to 32 included.
C1_NumericPushIsPadded ==
    (Done /\ SolePush /\ SoleOperand.rule \in NumericRules
          /\ Len(LiteralNat(SoleOperand)) <= Min(U128Bytes, SoleN))
    => /\ result.tag = "Ok"
       /\ Len(result.nodes) = 1
       /\ result.nodes[1] =
             ConcretePush(SoleN, result.nodes[1].op.imm.bytes)
       /\ IsPadded(result.nodes[1].op.imm.bytes,
                   Reverse(LiteralNat(SoleOperand)), SoleN)

\* the same for the widths a u128 covers: N in 1..16
C1_NumericPushIsPaddedUpTo16 ==
    (SolePush /\ SoleN <= U128Bytes) => C1_NumericPushIsPadded

\* ------------------------------------------------------------------------
\* C2
\* ------------------------------------------------------------------------

ErrorKinds ==
    {"Lexer", "ImmediateTooLarge", "ExtraArgument", "MissingArgument", "ArgumentType"}

\* C2: every call of parse_asm ends by returning Ok(AST) or Err of one of
\* the five error kinds, never by an abort.
C2_ParseAsmIsTotal ==
    Done => \/ result.tag = "Ok"
            \/ result.tag = "Err" /\ result.kind \in ErrorKinds

\* ------------------------------------------------------------------------
\* C3
\* ------------------------------------------------------------------------

\* C3: for every width N in 1..32 and every binary, octal or decimal literal
\* whose value needs more than N bytes, or more than 16 bytes, `pushN <v>`
\* returns Err(ImmediateTooLarge).
C3_OversizedNumericIsTooLarge ==
    (Done /\ SolePush /\ SoleOperand.rule \in NumericRules
          /\ (\/ Len(LiteralNat(SoleOperand)) > SoleN
              \/ Len(LiteralNat(SoleOperand)) > U128Bytes))
    => result = TooLarge

\* a width above 16 with a literal of 17 bytes has been rejected
C3_Witness ==
    /\ Done /\ SolePush /\ SoleOperand.rule = "decimal"
    /\ SoleN > U128Bytes
    /\ Len(LiteralNat(SoleOperand)) = U128Bytes + 1
    /\ result = TooLarge

\* ------------------------------------------------------------------------
\* C4
\* ------------------------------------------------------------------------

\* C4: for every width N in 1..32 and every hex literal of k raw bytes,
\* `pushN 0x..` returns Err(ImmediateTooLarge) when k > N, and otherwise the
\* one concrete pushN whose immediate is the decoded bytes left-padded with
\* zero bytes to N bytes (the decoded bytes themselves when k = N).
C4_HexPush ==
    (Done /\ SolePush /\ SoleOperand.rule = "hex")
    => IF Len(HexRaw(SoleOperand)) > SoleN
       THEN result = TooLarge
       ELSE /\ result.tag = "Ok"
            /\ Len(result.nodes) = 1
            /\ result.nodes[1] = ConcretePush(SoleN, result.nodes[1].op.imm.bytes)
            /\ IsPadded(result.nodes[1].op.imm.bytes, HexRaw(SoleOperand), SoleN)
            /\ (Len(HexRaw(SoleOperand)) = SoleN
                  => result.nodes[1].op.imm.bytes = HexRaw(SoleOperand))

\* push24 of 24 raw bytes has been parsed
C4_Witness ==
    /\ Done /\ SolePush /\ SoleOperand.rule = "hex"
    /\ SoleN = 24
    /\ HexRaw(SoleOperand) = HexBytes(24, "count")
    /\ result = OkWith(<<ConcretePush(24, HexBytes(24, "count"))>>)

\* ------------------------------------------------------------------------
\* C5, C9: the nodes of a returned AST against the constructs of the source
\* ------------------------------------------------------------------------

SemanticRules == {"inst_macro", "label_defn", "push", "op"}

IsSemantic(pair) == pair.rule \in SemanticRules

\* the constructs of the source text, in document order
Constructs == SelectSeq(asm.pairs, IsSemantic)

IsConcretePushNode(node) ==
    /\ node.node = "Op"
    /\ node.op.kind = "Op"
    /\ node.op.spec.mnemonic = "push"
    /\ node.op.imm.tag = "Constant"

\* C5: in every AST parse_asm returns, a push with a concrete immediate has
\* an immediate of exactly N bytes, N the width in the pushN of the source
\* and specifier.size() - 1.
C5_ConcreteImmediateHasWidth ==
    (Done /\ result.tag = "Ok")
    => /\ Len(result.nodes) = Len(Constructs)
       /\ \A k \in 1..Len(result.nodes) :
             IsConcretePushNode(result.nodes[k])
             => /\ IsPush(Constructs[k])
                /\ Len(result.nodes[k].op.imm.bytes) = WidthOf(Constructs[k])
                /\ Len(result.nodes[k].op.imm.bytes) = result.nodes[k].op.spec.size - 1

\* push16 of a one-byte octal literal has been returned, padded to 16 bytes
C5_Witness ==
    /\ Done /\ SolePush /\ SoleN = U128Bytes
    /\ SoleOperand = RadixOperand(8, <<7>>)
    /\ result = OkWith(<<ConcretePush(U128Bytes, Zeros(U128Bytes - 1) \o <<7>>)>>)

\* the node a construct stands for, as far as the source text decides it
NodeMatches(pair, node) ==
    CASE pair.rule = "inst_macro" ->
           LET m == pair.inner[1]
           IN  /\ m.rule = "import" => node = NodePath("Import", m.args[1].txt)
               /\ m.rule = "include" => node = NodePath("Include", m.args[1].txt)
               /\ m.rule = "include_hex" => node = NodePath("IncludeHex", m.args[1].txt)
               /\ m.rule = "push_macro" =>
                     node = [node |-> "Op",
                             op |-> [kind |-> "Push",
                                     imm |-> [tag |-> "Label", name |-> m.args[1].txt]]]
      [] pair.rule = "label_defn" ->
           node = [node |-> "Op", op |-> [kind |-> "Label", txt |-> pair.inner[1].txt]]
      [] pair.rule = "push" ->
           /\ node.node = "Op"
           /\ node.op.kind = "Op"
           /\ node.op.spec = [some |-> TRUE, mnemonic |-> "push", size |-> WidthOf(pair) + 1]
           /\ node.op.imm.tag \in {"Constant", "Label"}
      [] pair.rule = "op" ->
           node = [node |-> "Op",
                   op |-> [kind |-> "Op",
                           spec |-> [some |-> TRUE, mnemonic |-> pair.txt, size |-> 1],
                           imm |-> [tag |-> "None"]]]

\* C9: on success the node sequence holds exactly one node per construct
\* (directive, label definition, push, bare instruction), in source order,
\* and no node for any other rule match.
C9_OneNodePerConstructInOrder ==
    (Done /\ result.tag = "Ok")
    => /\ Len(result.nodes) = Len(Constructs)
       /\ \A k \in 1..Len(Constructs) : NodeMatches(Constructs[k], result.nodes[k])

\* a directive between two instructions, as the second of three nodes
C9_Witness ==
    /\ Done /\ result.tag = "Ok"
    /\ asm.pairs = <<PushPair(1, RadixOperand(10, <<1>>)),
                     MacroPair("include", <<StringArg("foo.asm")>>),
                     OpPair("jumpi"), EOIPair>>
    /\ Len(result.nodes) = 3
    /\ result.nodes[1] = ConcretePush(1, <<1>>)
    /\ result.nodes[2] = NodePath("Include", "foo.asm")
    /\ result.nodes[3].op.spec.mnemonic = "jumpi"

\* ------------------------------------------------------------------------
\* C6
\* ------------------------------------------------------------------------

PathMacros == {"import", "include", "include_hex"}

PathVariant(name) ==
    CASE name = "import" -> "Import"
      [] name = "include" -> "Include"
      [] name = "include_hex" -> "IncludeHex"

\* the first statement of the source is a directive taking one path
FirstIsPathMacro ==
    /\ asm.lexes
    /\ asm.pairs[1].rule = "inst_macro"
    /\ asm.pairs[1].inner[1].rule \in PathMacros

FirstArgs == asm.pairs[1].inner[1].args

\* C6: %import, %include and %include_hex with no argument return
\* Err(MissingArgument{got: 0, expected: 1}), with two or more arguments
\* Err(ExtraArgument{expected: 1}), with one argument that is no quoted string
\* Err(ArgumentType), and with one quoted string build the node Import,
\* Include or IncludeHex with that path.
C6_PathDirectiveArguments ==
    FirstIsPathMacro
    => /\ (Done /\ Len(FirstArgs) = 0)
             => result = [tag |-> "Err", kind |-> "MissingArgument",
                          got |-> 0, expected |-> 1]
       /\ (Done /\ Len(FirstArgs) >= 2)
             => result = [tag |-> "Err", kind |-> "ExtraArgument", expected |-> 1]
       /\ (Done /\ Len(FirstArgs) = 1 /\ FirstArgs[1].rule # "string")
             => result = [tag |-> "Err", kind |-> "ArgumentType"]
       /\ (Len(FirstArgs) = 1 /\ FirstArgs[1].rule = "string" /\ (idx > 1 \/ Done))
             => /\ idx > 1
                /\ program[1] =
                      [node |-> PathVariant(asm.pairs[1].inner[1].rule),
                       path |-> FirstArgs[1].txt]

\* %import("foo.asm") has produced its node
C6_Witness ==
    /\ FirstIsPathMacro
    /\ asm.pairs[1].inner[1].rule = "import"
    /\ idx = 2
    /\ program = <<[node |-> "Import", path |-> "foo.asm"]>>

\* ------------------------------------------------------------------------
\* C7
\* ------------------------------------------------------------------------

IsLabelPush(pair) == IsPush(pair) /\ pair.operand.rule = "label"

\* C7: `pushN <identifier>` parses to the pushN whose immediate is the
\* unresolved reference to that identifier, without error, whether or not the
\* label is defined and also when the identifier is a mnemonic.
C7_LabelPushIsDeferred ==
    /\ (Done /\ result.tag = "Ok")
         => /\ Len(result.nodes) = Len(Constructs)
            /\ \A k \in 1..Len(Constructs) :
                  IsLabelPush(Constructs[k])
                  => result.nodes[k] =
                        DeferredPush(WidthOf(Constructs[k]), Constructs[k].operand.txt)
    /\ (Done /\ result.tag # "Ok" /\ asm.lexes) => ~IsLabelPush(asm.pairs[idx])

\* `push1:` then `push1 push1`
C7_Witness ==
    /\ Done
    /\ asm.pairs = <<LabelDefnPair("push1"), PushPair(1, LabelOperand("push1")), EOIPair>>
    /\ result = OkWith(<<[node |-> "Op", op |-> [kind |-> "Label", txt |-> "push1"]],
                         DeferredPush(1, "push1")>>)

\* ------------------------------------------------------------------------
\* C8
\* ------------------------------------------------------------------------

\* C8: for every width N in 1..32 and every signature s, `pushN selector("s")`
\* returns the concrete pushN whose immediate is the first N bytes of the
\* Keccak-256 digest of s, never ImmediateTooLarge.
C8_SelectorIsHashPrefix ==
    (Done /\ SolePush /\ SoleOperand.rule = "selector")
    => /\ result.tag = "Ok"
       /\ Len(result.nodes) = 1
       /\ result.nodes[1] = ConcretePush(SoleN, result.nodes[1].op.imm.bytes)
       /\ result.nodes[1].op.spec.size - 1 = SoleN
       /\ Len(result.nodes[1].op.imm.bytes) = SoleN
       /\ \A k \in 1..SoleN :
             result.nodes[1].op.imm.bytes[k] = Keccak256(SoleOperand.inner)[k]

\* push32 selector("transfer(address,uint256)") is the whole digest
C8_Witness ==
    /\ Done /\ SolePush /\ SoleN = HashLen
    /\ SoleOperand = SelectorOperand("transfer(address,uint256)")
    /\ result = OkWith(<<ConcretePush(HashLen, Keccak256("transfer(address,uint256)"))>>)

\* ------------------------------------------------------------------------
\* C10
\* ------------------------------------------------------------------------

\* what processing one construct alone ends in
Outcome(pair) ==
    CASE pair.rule = "push" -> parse_push(pair)
      [] pair.rule = "inst_macro" -> parse_inst_macro(pair.inner[1])
      [] OTHER -> [tag |-> "Ok"]

Fails(pair) == Outcome(pair).tag # "Ok"

\* C10: when processing a construct fails, parse_asm ends with the failure of
\* the earliest such construct alone: no node built before it is returned and
\* no construct after it is processed.
C10_FirstFailureOnly ==
    (Done /\ asm.lexes)
    => /\ (\E k \in 1..Len(asm.pairs) : Fails(asm.pairs[k])) => result.tag # "Ok"
       /\ result.tag # "Ok"
            => /\ idx \in 1..Len(asm.pairs)
               /\ Fails(asm.pairs[idx])
               /\ \A j \in 1..(idx - 1) : ~Fails(asm.pairs[j])
               /\ result = Outcome(asm.pairs[idx])
               /\ "nodes" \notin DOMAIN result
               /\ Len(program) = Len(SelectSeq(SubSeq(asm.pairs, 1, idx - 1), IsSemantic))

\* two failing constructs after a good one: the error is the first one's
C10_Witness ==
    /\ Done
    /\ Len(asm.pairs) >= 3
    /\ ~Fails(asm.pairs[1]) /\ IsSemantic(asm.pairs[1])
    /\ asm.pairs[2] = MacroPair("import", <<>>)
    /\ asm.pairs[3] = PushPair(1, RadixOperand(10, <<2, 5, 6>>))
    /\ result = [tag |-> "Err", kind |-> "MissingArgument", got |-> 0, expected |-> 1]
    /\ Len(program) = 1

====
